---------------------------- MODULE Spec2Model ----------------------------
(***************************************************************************)
(* Model of the user ledger of bigchappa/internship-task.                  *)
(*                                                                         *)
(* The database is PostgreSQL reached through SQLAlchemy with the default  *)
(* isolation level (READ COMMITTED, src/db.py:17).  Every HTTP request     *)
(* gets a session of its own (src/db.py:31-33).  The three tables hold     *)
(* COMMITTED rows only; what a request has read or is about to write       *)
(* lives in its slot of proc until its commit step installs it.  Row       *)
(* locks are taken by SELECT ... FOR UPDATE and by the UPDATE a flush      *)
(* emits, and are released by the commit or rollback that ends the         *)
(* database transaction.                                                   *)
(*                                                                         *)
(* Amounts are integers: the arithmetic of the handlers (one addition,     *)
(* one subtraction, one comparison with 0) is modelled on whole numbers.   *)
(*                                                                         *)
(* The weekly analysis (src/tasks.py) is a job of its own: it reads a      *)
(* fixed history of users and transactions with their creation dates       *)
(* (store) and walks back week by week (job).  Dates are day numbers.      *)
(* Spec is the ledger, LiveSpec the ledger with its scheduling, AggSpec    *)
(* the analysis job over every history of bounded size.                    *)
(***************************************************************************)
EXTENDS Integers, Sequences, FiniteSets, TLC

\* ------------------------------------------------------------------ bounds
NumProcs  == 2      \* requests in flight at the same time
MaxUsers  == 2      \* rows of the user table
MaxTx     == 2      \* rows of the transaction table
MaxAmount == 1      \* requested amounts range over -MaxAmount..MaxAmount
NumReqCurrencies == 1   \* currencies that requests name
MaxWeeks    == 3    \* weeks a caller asks the analysis for: 0..MaxWeeks
MaxAggUsers == 1    \* users in the history the analysis reads
MaxAggTx    == 2    \* transactions in the history the analysis reads

Procs == 1..NumProcs

\* ------------------------------------------------------- program constants
\* CurrencyEnum, in declaration order
CurrencySeq == << "USD", "EUR", "AUD", "CAD", "ARS", "PLN", "BTC", "ETH", "DOGE", "USDT" >>

CurrencyEnum == { CurrencySeq[i] : i \in DOMAIN CurrencySeq }

\* UserStatusEnum
UserStatusEnum == { "ACTIVE", "BLOCKED" }

\* TransactionStatusEnum
TransactionStatusEnum == { "PROCESSED", "ROLLBACKED" }

\* None: the result of a lookup that finds no row
None == 0

\* ------------------------------------------------------------------- state
VARIABLES
    User,           \* table user:         id |-> [email, status]
    UserBalance,    \* table user_balance: id |-> [user_id, currency, amount]
    Transaction,    \* table transaction:  id |-> [user_id, currency, amount, status]
    proc,           \* the requests in flight, one slot per request
    response,       \* the request that ended last, and how it ended
    pristine,       \* history: per transaction, the amount its post_transaction
                    \* read, while nothing else has written that balance since
                    \* that read; Touched afterwards
    store,          \* the history the analysis job reads: the creation dates
                    \* of the users and the transactions with their dates
    job             \* the analysis job: the request, the task and its run

vars == << User, UserBalance, Transaction, proc, response, pristine, store, job >>

\* What the weekly analysis works on.
aggVars == << store, job >>

\* What the request handlers of the ledger work on.
ledgerVars == << User, UserBalance, Transaction, proc, response, pristine >>

tables == << User, UserBalance, Transaction >>

\* A request slot that holds no request.
Idle ==
    [ op |-> "none", pc |-> "idle", user_id |-> 0, currency |-> "", amount |-> 0,
      transaction_id |-> 0, balance_id |-> 0, new_balance |-> 0, seen |-> 0 ]

\* The request `req` ends with `outcome` ("ok" or an error kind), which the
\* handler hands over by `signal` ("return" or "raise").
Response(req, outcome, signal) ==
    [ op |-> req.op, user_id |-> req.user_id, currency |-> req.currency,
      amount |-> req.amount, transaction_id |-> req.transaction_id,
      outcome |-> outcome, signal |-> signal ]

\* The value of pristine for a transaction whose balance was written by
\* something else after its post_transaction read it.
Touched == 0 - 1

\* No analysis job is submitted or running.
NoJob ==
    [ pc |-> "idle", requested |-> 0 - 1, args |-> << >>, weeks |-> 0,
      today |-> 0, dt_gt |-> 0, dt_lt |-> 0, i |-> 0, results |-> << >> ]

\* A history without users and transactions.
EmptyStore == [ users |-> << >>, transactions |-> << >> ]

\* The empty database after create_db_and_tables, no request in flight.
LedgerInit ==
    /\ User = << >>
    /\ UserBalance = << >>
    /\ Transaction = << >>
    /\ proc = [ p \in Procs |-> Idle ]
    /\ response = Response(Idle, "none", "none")
    /\ pristine = << >>

Init ==
    /\ LedgerInit
    /\ store = EmptyStore
    /\ job = NoJob

\* A new request is served in the lowest slot that holds none (the slots are
\* interchangeable; this only names them).
Free(p) ==
    /\ proc[p].pc = "idle"
    /\ \A q \in Procs : q < p => proc[q].pc # "idle"

\* The request in slot p ends and its slot is free again.
End(p, req, outcome, signal) ==
    /\ proc' = [ proc EXCEPT ![p] = Idle ]
    /\ response' = Response(req, outcome, signal)
    /\ UNCHANGED aggVars

\* The request in slot p goes on to its next step.
Continue(p, req) ==
    /\ proc' = [ proc EXCEPT ![p] = req ]
    /\ UNCHANGED << response, aggVars >>

\* ----------------------------------------------------------------- inputs
ReqCurrencies == { CurrencySeq[i] : i \in 1..NumReqCurrencies }

ReqAmounts == (0 - MaxAmount)..MaxAmount

ReqUserIds == 1..MaxUsers

ReqTransactionIds == 1..MaxTx

\* e-mail addresses are numbered in the order of their first registration
ReqEmails == 1..(Len(User) + 1)

\* ---------------------------------------------------------------- queries
\* session.get(User, user_id)
GetUser(user_id) == IF user_id \in DOMAIN User THEN user_id ELSE None

\* select(UserBalance).where(user_id == .., currency == ..): the matching rows
SelectUserBalance(user_id, currency) ==
    { b \in DOMAIN UserBalance :
        UserBalance[b].user_id = user_id /\ UserBalance[b].currency = currency }

\* select(Transaction).where(Transaction.id == transaction_id)
SelectTransaction(transaction_id) ==
    IF transaction_id \in DOMAIN Transaction THEN transaction_id ELSE None

\* select(User).where(User.email == email)
SelectUserByEmail(email) == { u \in DOMAIN User : User[u].email = email }

\* The transactions of the user and currency of balance row b.
TransactionsOf(b) ==
    { t \in DOMAIN Transaction :
        /\ Transaction[t].user_id = UserBalance[b].user_id
        /\ Transaction[t].currency = UserBalance[b].currency }

\* The number of committed UPDATEs of balance row b: one per committed
\* post_transaction and one per committed rollback.
Writes(b) ==
    Cardinality(TransactionsOf(b))
      + Cardinality({ t \in TransactionsOf(b) : Transaction[t].status = "ROLLBACKED" })

\* ------------------------------------------------------------------ locks
\* HoldsTransactionLock with the FOR UPDATE of the transaction SELECT left out.
HoldsTransactionLock_NoLock(q, t) == FALSE

\* HoldsTransactionLock with the lock counted as held from the moment the
\* SELECT ... FOR UPDATE is issued, before it is granted.
HoldsTransactionLock_Early(q, t) ==
    /\ proc[q].op = "rollback"
    /\ proc[q].pc \in { "rb_select_transaction", "rb_select_balance", "rb_commit" }
    /\ proc[q].transaction_id = t

\* The row lock of transaction row t is held by the rollback in slot q from
\* its SELECT ... FOR UPDATE to the end of its database transaction.
HoldsTransactionLock(q, t) ==
    /\ proc[q].op = "rollback"
    /\ proc[q].pc \in { "rb_select_balance", "rb_commit" }
    /\ proc[q].transaction_id = t

\* The row lock of user_balance row b is held by a rollback from its
\* SELECT ... FOR UPDATE to the end of its database transaction.
HoldsBalanceLock(q, b) ==
    /\ proc[q].op = "rollback"
    /\ proc[q].pc = "rb_commit"
    /\ proc[q].balance_id = b

TransactionLockedByOther(p, t) == \E q \in Procs \ {p} : HoldsTransactionLock(q, t)

BalanceLockedByOther(p, b) == \E q \in Procs \ {p} : HoldsBalanceLock(q, b)

\* --------------------------------------------------------------- post_user
\* NewBalances with the last member of CurrencyEnum left out.
NewBalances_NoLast(user_id) ==
    [ i \in 1..(Len(CurrencySeq) - 1) |->
        [ user_id |-> user_id, currency |-> CurrencySeq[i], amount |-> 0 ] ]

\* UserBalance(user_id, currency, amount=0) for currency in CurrencyEnum
NewBalances(user_id) ==
    [ i \in 1..Len(CurrencySeq) |->
        [ user_id |-> user_id, currency |-> CurrencySeq[i], amount |-> 0 ] ]

\* the lookup of the e-mail, the insert of the user and of its balance rows,
\* and the commit
post_user(p, email) ==
    /\ Free(p)
    /\ LET req == [ Idle EXCEPT !.op = "post_user" ] IN
       IF SelectUserByEmail(email) # {}
       THEN /\ End(p, req, "UserAlreadyExistsError", "raise")
            /\ UNCHANGED << User, UserBalance >>
       ELSE /\ Len(User) < MaxUsers
            /\ User' = Append(User, [ email |-> email, status |-> "ACTIVE" ])
            /\ UserBalance' = UserBalance \o NewBalances(Len(User) + 1)
            /\ End(p, [ req EXCEPT !.user_id = Len(User) + 1 ], "ok", "return")
    /\ UNCHANGED << Transaction, pristine >>

\* -------------------------------------------------------------- patch_user
\* the select of the user, the two checks, the UPDATE of the status and its
\* commit
patch_user(p, user_id, status) ==
    /\ Free(p)
    /\ LET req == [ Idle EXCEPT !.op = "patch_user", !.user_id = user_id ] IN
       IF GetUser(user_id) = None
       THEN /\ End(p, req, "UserNotFoundError", "raise")
            /\ UNCHANGED User
       ELSE IF User[user_id].status = status
       THEN /\ End(p, req, "UserAlreadyInStatusError", "raise")
            /\ UNCHANGED User
       ELSE /\ User' = [ User EXCEPT ![user_id].status = status ]
            /\ End(p, req, "ok", "return")
    /\ UNCHANGED << UserBalance, Transaction, pristine >>

\* -------------------------------------------------------- post_transaction
\* RequestTransactionModel.amount: Field(ge=1)
ValidAmount(amount) == amount >= 1

\* if user.status != "ACTIVE"
ApplyUserGate(status) == status # "ACTIVE"

\* if new_balance < 0  (post_transaction)
ApplyNegative(new_balance) == new_balance < 0

\* new_balance = float(user_balance.amount) + transaction.amount
ApplyNewBalance(balance_amount, amount) == balance_amount + amount

\* the validation of the request body, then session.get(User, user_id) and
\* the two user checks
post_transaction_get_user(p, user_id, currency, amount) ==
    /\ Free(p)
    /\ Len(Transaction) + Cardinality({ q \in Procs : proc[q].op = "apply" }) < MaxTx
    /\ LET req == [ Idle EXCEPT !.op = "apply", !.user_id = user_id,
                                !.currency = currency, !.amount = amount ] IN
       IF ~ValidAmount(amount)
       THEN End(p, req, "ValidationError", "raise")
       ELSE IF GetUser(user_id) = None
       THEN End(p, req, "UserNotFoundError", "return")
       ELSE IF ApplyUserGate(User[user_id].status)
       THEN End(p, req, "UserBlockedError", "raise")
       ELSE Continue(p, [ req EXCEPT !.pc = "apply_select_balance" ])
    /\ UNCHANGED << tables, pristine >>

\* the SELECT of the balance row and the computation of new_balance from the
\* amount it returned
post_transaction_select_balance(p) ==
    /\ proc[p].op = "apply"
    /\ proc[p].pc = "apply_select_balance"
    /\ LET rows == SelectUserBalance(proc[p].user_id, proc[p].currency) IN
       IF rows = {}
       THEN End(p, proc[p], "BalanceNotFoundError", "raise")
       ELSE IF Cardinality(rows) > 1
       THEN End(p, proc[p], "MultipleResultsFound", "raise")
       ELSE LET b == CHOOSE b \in rows : TRUE
                new_balance == ApplyNewBalance(UserBalance[b].amount, proc[p].amount)
            IN  IF ApplyNegative(new_balance)
                THEN End(p, proc[p], "NegativeBalanceError", "raise")
                ELSE Continue(p, [ proc[p] EXCEPT !.pc = "apply_commit",
                                                  !.balance_id = b,
                                                  !.new_balance = new_balance,
                                                  !.seen = Writes(b) ])
    /\ UNCHANGED << tables, pristine >>

\* NewTransaction with the wrong member of TransactionStatusEnum.
NewTransaction_RolledBack(user_id, currency, amount) ==
    [ user_id |-> user_id, currency |-> currency, amount |-> amount,
      status |-> "ROLLBACKED" ]

\* Transaction(user_id, currency, amount, status="PROCESSED")
NewTransaction(user_id, currency, amount) ==
    [ user_id |-> user_id, currency |-> currency, amount |-> amount,
      status |-> "PROCESSED" ]

\* post_transaction_commit with session.add(db_transaction) left out: the
\* balance is written and no row is inserted.
post_transaction_commit_NoInsert(p) ==
    /\ proc[p].op = "apply"
    /\ proc[p].pc = "apply_commit"
    /\ ~BalanceLockedByOther(p, proc[p].balance_id)
    /\ UserBalance' = [ UserBalance EXCEPT
                            ![proc[p].balance_id].amount = proc[p].new_balance ]
    /\ End(p, proc[p], "ok", "return")
    /\ UNCHANGED << User, Transaction, pristine >>

\* session.commit(): the flush emits
\* UPDATE user_balance SET amount = new_balance WHERE id = balance_id, which
\* waits for the row lock, and the INSERT of the transaction; the commit makes
\* both visible together and releases the lock.
post_transaction_commit(p) ==
    /\ proc[p].op = "apply"
    /\ proc[p].pc = "apply_commit"
    /\ ~BalanceLockedByOther(p, proc[p].balance_id)
    /\ LET b == proc[p].balance_id
           t == Len(Transaction) + 1
       IN  /\ UserBalance' = [ UserBalance EXCEPT ![b].amount = proc[p].new_balance ]
           /\ Transaction' = Append(Transaction,
                                    NewTransaction(proc[p].user_id, proc[p].currency,
                                                   proc[p].amount))
           /\ pristine' =
                [ u \in 1..t |->
                    IF u = t
                    THEN IF proc[p].seen = Writes(b)
                         THEN proc[p].new_balance - proc[p].amount
                         ELSE Touched
                    ELSE IF u \in TransactionsOf(b) THEN Touched ELSE pristine[u] ]
           /\ End(p, [ proc[p] EXCEPT !.transaction_id = t ], "ok", "return")
    /\ UNCHANGED User

\* ---------------------------------------------- patch_rollback_transaction
\* RollbackUserGate with the comparison inverted.
RollbackUserGate_Inverted(status) == status # "BLOCKED"

\* if user.status == "BLOCKED"
RollbackUserGate(status) == status = "BLOCKED"

\* RollbackNegative with the check left out.
RollbackNegative_NoCheck(new_balance) == FALSE

\* RollbackNegative with <= for <.
RollbackNegative_Strict(new_balance) == new_balance <= 0

\* if new_balance < 0  (patch_rollback_transaction)
RollbackNegative(new_balance) == new_balance < 0

\* RollbackNewBalance with the sign of the delta wrong.
RollbackNewBalance_Plus(balance_amount, transaction_amount) ==
    balance_amount + transaction_amount

\* new_balance = user_balance.amount - transaction.amount
RollbackNewBalance(balance_amount, transaction_amount) ==
    balance_amount - transaction_amount

\* session.get(User, user_id) and the two user checks
patch_rollback_transaction_get_user(p, user_id, transaction_id) ==
    /\ Free(p)
    /\ LET req == [ Idle EXCEPT !.op = "rollback", !.user_id = user_id,
                                !.transaction_id = transaction_id ] IN
       IF GetUser(user_id) = None
       THEN End(p, req, "UserNotFoundError", "raise")
       ELSE IF RollbackUserGate(User[user_id].status)
       THEN End(p, req, "UserBlockedError", "raise")
       ELSE Continue(p, [ req EXCEPT !.pc = "rb_select_transaction" ])
    /\ UNCHANGED << tables, pristine >>

\* TransactionCheck with the status check before the ownership check.
TransactionCheck_StatusFirst(transaction_id, user_id) ==
    IF SelectTransaction(transaction_id) = None
    THEN "TransactionNotFoundError"
    ELSE IF Transaction[transaction_id].status = "ROLLBACKED"
    THEN "TransactionAlreadyRolledBackError"
    ELSE IF Transaction[transaction_id].user_id # user_id
    THEN "TransactionOwnershipError"
    ELSE ""

\* The checks made on the transaction row the SELECT returned, in the order
\* of the code; "" when all pass.
TransactionCheck(transaction_id, user_id) ==
    IF SelectTransaction(transaction_id) = None
    THEN "TransactionNotFoundError"
    ELSE IF Transaction[transaction_id].user_id # user_id
    THEN "TransactionOwnershipError"
    ELSE IF Transaction[transaction_id].status = "ROLLBACKED"
    THEN "TransactionAlreadyRolledBackError"
    ELSE ""

\* SELECT transaction ... FOR UPDATE: waits for the row lock, reads the
\* committed row, checks it.  A failed check ends the database transaction
\* and releases the lock.
patch_rollback_transaction_select_transaction(p) ==
    /\ proc[p].op = "rollback"
    /\ proc[p].pc = "rb_select_transaction"
    /\ ~TransactionLockedByOther(p, proc[p].transaction_id)
    /\ LET t == proc[p].transaction_id
           err == TransactionCheck(t, proc[p].user_id)
       IN  IF err # ""
           THEN End(p, proc[p], err, "raise")
           ELSE Continue(p, [ proc[p] EXCEPT !.pc = "rb_select_balance",
                                             !.currency = Transaction[t].currency,
                                             !.amount = Transaction[t].amount ])
    /\ UNCHANGED << tables, pristine >>

\* SELECT user_balance ... FOR UPDATE: waits for the row lock, reads the
\* committed amount, computes and checks new_balance.
patch_rollback_transaction_select_balance(p) ==
    /\ proc[p].op = "rollback"
    /\ proc[p].pc = "rb_select_balance"
    /\ LET rows == SelectUserBalance(proc[p].user_id, proc[p].currency) IN
       /\ \A b \in rows : ~BalanceLockedByOther(p, b)
       /\ IF rows = {}
          THEN End(p, proc[p], "BalanceNotFoundError", "raise")
          ELSE IF Cardinality(rows) > 1
          THEN End(p, proc[p], "MultipleResultsFound", "raise")
          ELSE LET b == CHOOSE b \in rows : TRUE
                   new_balance == RollbackNewBalance(UserBalance[b].amount,
                                                     proc[p].amount)
               IN  IF RollbackNegative(new_balance)
                   THEN End(p, proc[p], "NegativeBalanceError", "raise")
                   ELSE Continue(p, [ proc[p] EXCEPT !.pc = "rb_commit",
                                                     !.balance_id = b,
                                                     !.new_balance = new_balance ])
    /\ UNCHANGED << tables, pristine >>

\* The end of `async with session.begin()`: the two UPDATEs are flushed and
\* committed together and both row locks are released.
patch_rollback_transaction_commit(p) ==
    /\ proc[p].op = "rollback"
    /\ proc[p].pc = "rb_commit"
    /\ LET b == proc[p].balance_id
           t == proc[p].transaction_id
       IN  /\ UserBalance' = [ UserBalance EXCEPT ![b].amount = proc[p].new_balance ]
           /\ Transaction' = [ Transaction EXCEPT ![t].status = "ROLLBACKED" ]
           /\ pristine' =
                [ u \in DOMAIN pristine |->
                    IF u # t /\ u \in TransactionsOf(b) THEN Touched ELSE pristine[u] ]
           /\ End(p, proc[p], "ok", "return")
    /\ UNCHANGED User

\* -------------------------------------------------------------------- next
Next ==
    \E p \in Procs :
        \/ \E email \in ReqEmails : post_user(p, email)
        \/ \E user_id \in ReqUserIds, status \in UserStatusEnum :
               patch_user(p, user_id, status)
        \/ \E user_id \in ReqUserIds, currency \in ReqCurrencies, amount \in ReqAmounts :
               post_transaction_get_user(p, user_id, currency, amount)
        \/ post_transaction_select_balance(p)
        \/ post_transaction_commit(p)
        \/ \E user_id \in ReqUserIds, transaction_id \in ReqTransactionIds :
               patch_rollback_transaction_get_user(p, user_id, transaction_id)
        \/ patch_rollback_transaction_select_transaction(p)
        \/ patch_rollback_transaction_select_balance(p)
        \/ patch_rollback_transaction_commit(p)

Spec == Init /\ [][Next]_vars

\* --------------------------------------------------------- weekly analysis
\* def generate_transaction_analysis_task(weeks=52),
\* async def get_transaction_analysis(weeks=52)
DefaultWeeks == 52

\* the days of timedelta(weeks=1)
DaysPerWeek == 7

\* timedelta(weeks=n), in days; dates are day numbers
Weeks(n) == DaysPerWeek * n

\* datetime.now().date() of the runs: the day after the last of MaxWeeks
\* whole weeks that start at day 0
Today == Weeks(MaxWeeks)

\* requested.weeks of a job that was not submitted by the HTTP request
NoWeeks == 0 - 1

\* The creation dates of the rows of the history: the first and the last day
\* of each of the MaxWeeks weeks before Today.
SampleDays ==
    { Weeks(k) : k \in 0..(MaxWeeks - 1) }
        \cup { Weeks(k) + DaysPerWeek - 1 : k \in 0..(MaxWeeks - 1) }

\* The histories: ids are given in the order of creation, a transaction
\* belongs to a user that was registered no later, and its amount passed
\* RequestTransactionModel.
Stores ==
    { st \in [ users : UNION { [ 1..n -> SampleDays ] : n \in 0..MaxAggUsers },
               transactions :
                   UNION { [ 1..m -> [ user_id : 1..MaxAggUsers,
                                       created : SampleDays,
                                       amount  : 1..MaxAmount,
                                       status  : TransactionStatusEnum ] ]
                           : m \in 0..MaxAggTx } ] :
        /\ \A u, v \in DOMAIN st.users : u <= v => st.users[u] <= st.users[v]
        /\ \A t, x \in DOMAIN st.transactions :
              t <= x => st.transactions[t].created <= st.transactions[x].created
        /\ \A t \in DOMAIN st.transactions :
              /\ st.transactions[t].user_id \in DOMAIN st.users
              /\ st.users[st.transactions[t].user_id] <= st.transactions[t].created }

\* The weeks values callers ask for.
ReqWeeks == 0..MaxWeeks

\* a date lies in the bucket [dt_gt, dt_lt)
InRange(day, dt_gt, dt_lt) == dt_gt <= day /\ day < dt_lt

\* The users registered in the bucket.
Registered(dt_gt, dt_lt) ==
    { u \in DOMAIN store.users : InRange(store.users[u], dt_gt, dt_lt) }

\* The transactions created in the bucket.
Created(dt_gt, dt_lt) ==
    { t \in DOMAIN store.transactions :
        InRange(store.transactions[t].created, dt_gt, dt_lt) }

Deposits(T) == { t \in T : store.transactions[t].amount > 0 }

Withdrawals(T) == { t \in T : store.transactions[t].amount < 0 }

NotRollbacked(T) == { t \in T : store.transactions[t].status # "ROLLBACKED" }

\* The sum of the amounts of the transactions in T.
RECURSIVE StoreSum(_)
StoreSum(T) ==
    IF T = {} THEN 0
    ELSE LET t == CHOOSE t \in T : TRUE
         IN  store.transactions[t].amount + StoreSum(T \ {t})

\* The users in U that made a transaction of T.
UsersWith(U, T) == { u \in U : \E t \in T : store.transactions[t].user_id = u }

get_registered_users_count(dt_gt, dt_lt) == Cardinality(Registered(dt_gt, dt_lt))

get_registered_and_deposit_users_count(dt_gt, dt_lt) ==
    Cardinality(UsersWith(Registered(dt_gt, dt_lt), Deposits(Created(dt_gt, dt_lt))))

get_registered_and_not_rollbacked_deposit_users_count(dt_gt, dt_lt) ==
    Cardinality(UsersWith(Registered(dt_gt, dt_lt),
                          NotRollbacked(Deposits(Created(dt_gt, dt_lt)))))

get_not_rollbacked_deposit_amount(dt_gt, dt_lt) ==
    StoreSum(NotRollbacked(Deposits(Created(dt_gt, dt_lt))))

get_not_rollbacked_withdraw_amount(dt_gt, dt_lt) ==
    StoreSum(NotRollbacked(Withdrawals(Created(dt_gt, dt_lt))))

get_transactions_count(dt_gt, dt_lt) == Cardinality(Created(dt_gt, dt_lt))

get_not_rollbacked_transactions_count(dt_gt, dt_lt) ==
    Cardinality(NotRollbacked(Created(dt_gt, dt_lt)))

\* The seven awaited query results of one pass of the loop.
Metrics(dt_gt, dt_lt) ==
    [ registered_users_count |-> get_registered_users_count(dt_gt, dt_lt),
      registered_and_deposit_users_count |->
          get_registered_and_deposit_users_count(dt_gt, dt_lt),
      registered_and_not_rollbacked_deposit_users_count |->
          get_registered_and_not_rollbacked_deposit_users_count(dt_gt, dt_lt),
      not_rollbacked_deposit_amount |-> get_not_rollbacked_deposit_amount(dt_gt, dt_lt),
      not_rollbacked_withdraw_amount |-> get_not_rollbacked_withdraw_amount(dt_gt, dt_lt),
      transactions_count |-> get_transactions_count(dt_gt, dt_lt),
      not_rollbacked_transactions_count |->
          get_not_rollbacked_transactions_count(dt_gt, dt_lt) ]

\* AnyPositive with >= for >.
AnyPositive_NonNegative(m) ==
    \/ m.registered_users_count >= 0
    \/ m.registered_and_deposit_users_count >= 0
    \/ m.registered_and_not_rollbacked_deposit_users_count >= 0
    \/ m.not_rollbacked_deposit_amount >= 0
    \/ m.not_rollbacked_withdraw_amount >= 0
    \/ m.transactions_count >= 0
    \/ m.not_rollbacked_transactions_count >= 0

\* if any([registered_users_count > 0, ..., not_rollbacked_transactions_count > 0])
AnyPositive(m) ==
    \/ m.registered_users_count > 0
    \/ m.registered_and_deposit_users_count > 0
    \/ m.registered_and_not_rollbacked_deposit_users_count > 0
    \/ m.not_rollbacked_deposit_amount > 0
    \/ m.not_rollbacked_withdraw_amount > 0
    \/ m.transactions_count > 0
    \/ m.not_rollbacked_transactions_count > 0

\* the dict appended to results
Entry(dt_gt, dt_lt, m) ==
    [ start_date |-> dt_gt, end_date |-> dt_lt, metrics |-> m ]

\* dt_gt = today - timedelta(weeks=weeks)
FirstStart(today, weeks) == today - Weeks(weeks)

\* GET /transactions/analysis?weeks=..: the handler submits the task with
\* generate_transaction_analysis_task.delay(), without arguments
main_get_transaction_analysis(weeks) ==
    /\ job.pc = "idle"
    /\ job' = [ NoJob EXCEPT !.pc = "queued", !.requested = weeks, !.args = << >> ]
    /\ UNCHANGED << ledgerVars, store >>

\* the task submitted with its parameter: Submit(Aggregate(weeks))
delay(weeks) ==
    /\ job.pc = "idle"
    /\ job' = [ NoJob EXCEPT !.pc = "queued", !.requested = NoWeeks,
                             !.args = << weeks >> ]
    /\ UNCHANGED << ledgerVars, store >>

\* a worker runs the task: weeks is the argument or the default, and
\* get_transaction_analysis sets today, dt_lt, dt_gt and results
generate_transaction_analysis_task ==
    /\ job.pc = "queued"
    /\ LET weeks == IF job.args = << >> THEN DefaultWeeks ELSE job.args[1] IN
       job' = [ job EXCEPT !.pc = "loop", !.weeks = weeks, !.today = Today,
                           !.dt_lt = Today, !.dt_gt = FirstStart(Today, weeks),
                           !.i = 0, !.results = << >> ]
    /\ UNCHANGED << ledgerVars, store >>

\* get_transaction_analysis_week with the two decrements left out.
get_transaction_analysis_week_NoShift ==
    /\ job.pc = "loop"
    /\ job.i < job.weeks
    /\ LET m == Metrics(job.dt_gt, job.dt_lt) IN
       job' = [ job EXCEPT
                  !.results = IF AnyPositive(m)
                              THEN Append(@, Entry(job.dt_gt, job.dt_lt, m))
                              ELSE @,
                  !.i = @ + 1 ]
    /\ UNCHANGED << ledgerVars, store >>

\* one pass of `for _ in range(weeks)`: the seven queries for
\* (dt_gt, dt_lt), the conditional append, and the two decrements
get_transaction_analysis_week ==
    /\ job.pc = "loop"
    /\ job.i < job.weeks
    /\ LET m == Metrics(job.dt_gt, job.dt_lt) IN
       job' = [ job EXCEPT
                  !.results = IF AnyPositive(m)
                              THEN Append(@, Entry(job.dt_gt, job.dt_lt, m))
                              ELSE @,
                  !.dt_gt = @ - Weeks(1),
                  !.dt_lt = @ - Weeks(1),
                  !.i = @ + 1 ]
    /\ UNCHANGED << ledgerVars, store >>

\* range(weeks) is exhausted: return results
get_transaction_analysis_return ==
    /\ job.pc = "loop"
    /\ job.i >= job.weeks
    /\ job' = [ job EXCEPT !.pc = "done" ]
    /\ UNCHANGED << ledgerVars, store >>

\* GET /tasks/{task_id}/result of a task that is ready: return task.result
\* (job keeps the result that was handed out until the next submission)
get_task_result ==
    /\ job.pc = "done"
    /\ job' = [ job EXCEPT !.pc = "idle" ]
    /\ UNCHANGED << ledgerVars, store >>

AggInit ==
    /\ LedgerInit
    /\ store \in Stores
    /\ job = NoJob

AggNext ==
    \/ \E weeks \in ReqWeeks : main_get_transaction_analysis(weeks)
    \/ \E weeks \in ReqWeeks : delay(weeks)
    \/ generate_transaction_analysis_task
    \/ get_transaction_analysis_week
    \/ get_transaction_analysis_return
    \/ get_task_result

AggSpec == AggInit /\ [][AggNext]_vars

\* ------------------------------------------------------ steps and requests
\* The balance row of transaction t.
BalanceOf(t) ==
    CHOOSE b \in DOMAIN UserBalance :
        /\ UserBalance[b].user_id = Transaction[t].user_id
        /\ UserBalance[b].currency = Transaction[t].currency

\* The sum of the amounts of the transactions in S.
RECURSIVE SumAmounts(_)
SumAmounts(S) ==
    IF S = {} THEN 0
    ELSE LET t == CHOOSE t \in S : TRUE
         IN  Transaction[t].amount + SumAmounts(S \ {t})

\* A request ends in this step, with response'.
Ended ==
    \/ response' # response
    \/ \E p \in Procs : proc[p].pc # "idle" /\ proc'[p].pc = "idle"

\* This step is the step of the request in slot p that is at pc.
StepAt(p, op, pc) ==
    /\ proc[p].op = op
    /\ proc[p].pc = pc
    /\ proc'[p] # proc[p]

\* The transaction rows this step inserts, and the ones it changes.
Inserted == (DOMAIN Transaction') \ (DOMAIN Transaction)

Flipped == { t \in DOMAIN Transaction : Transaction'[t] # Transaction[t] }

\* The balance rows this step changes.
Rewritten == { b \in DOMAIN UserBalance : UserBalance'[b] # UserBalance[b] }

\* ------------------------------------------------------------------ claims

\* C1: in every committed state, under every interleaving of the steps of
\* post_transaction and patch_rollback_transaction requests, every balance
\* row has amount >= 0.
C1_NonNegativeBalance ==
    \A b \in DOMAIN UserBalance : UserBalance[b].amount >= 0

\* C1 witness: a balance that was credited and rolled back down to 0.
C1_Witness ==
    \E b \in DOMAIN UserBalance :
        /\ UserBalance[b].amount = 0
        /\ \E t \in TransactionsOf(b) : Transaction[t].status = "ROLLBACKED"
        /\ \E t \in TransactionsOf(b) : Transaction[t].status = "PROCESSED"

\* C2 (as claimed): concurrent post_transaction requests on one balance lose
\* no update: while no transaction of a balance has been rolled back, its
\* amount is the initial 0 plus the amounts of all its committed
\* transactions.
C2_NoLostUpdate ==
    \A b \in DOMAIN UserBalance :
        (\A t \in TransactionsOf(b) : Transaction[t].status = "PROCESSED")
            => UserBalance[b].amount = SumAmounts(TransactionsOf(b))

\* C3: a rollback commits only on a transaction whose committed status is
\* PROCESSED, flips it to ROLLBACKED and subtracts its amount from the
\* committed balance (so it is applied at most once, ROLLBACKED being final);
\* a rollback by the owner that reads a transaction already ROLLBACKED ends
\* with TransactionAlreadyRolledBackError and changes no row.
C3_RollbackAtMostOnce ==
    [][ \A p \in Procs :
          LET t == proc[p].transaction_id IN
          /\ StepAt(p, "rollback", "rb_commit") =>
                /\ Transaction[t].status = "PROCESSED"
                /\ Transaction'[t].status = "ROLLBACKED"
                /\ response'.outcome = "ok"
                /\ UserBalance'[BalanceOf(t)].amount
                     = UserBalance[BalanceOf(t)].amount - Transaction[t].amount
          /\ ( /\ StepAt(p, "rollback", "rb_select_transaction")
               /\ t \in DOMAIN Transaction
               /\ Transaction[t].user_id = proc[p].user_id
               /\ Transaction[t].status = "ROLLBACKED" ) =>
                /\ proc'[p].pc = "idle"
                /\ response'.outcome = "TransactionAlreadyRolledBackError"
                /\ UNCHANGED tables
      ]_vars

\* C3 witness: a second rollback of a ROLLBACKED transaction was refused.
C3_Witness ==
    /\ response.op = "rollback"
    /\ response.outcome = "TransactionAlreadyRolledBackError"
    /\ Transaction[response.transaction_id].status = "ROLLBACKED"

\* C4: every step that rewrites a balance row also inserts exactly one
\* PROCESSED transaction of that balance or flips exactly one transaction of
\* that balance to ROLLBACKED, and the reverse: the commit of a
\* post_transaction installs its new_balance together with its row, the
\* commit of a rollback installs its new_balance together with the status;
\* and a request that ends in an error leaves all rows as they were.
C4_AllOrNothing ==
    [][ /\ \A b \in Rewritten :
              \/ /\ Flipped = {}
                 /\ \E t \in Inserted : Inserted = {t} /\ BalanceOf(t)' = b
              \/ /\ Inserted = {}
                 /\ \E t \in Flipped : Flipped = {t} /\ BalanceOf(t) = b
        /\ \A p \in Procs :
              StepAt(p, "apply", "apply_commit") =>
                  /\ UserBalance'[proc[p].balance_id].amount = proc[p].new_balance
                  /\ \E t \in Inserted :
                        /\ Inserted = {t}
                        /\ Transaction'[t] = NewTransaction(proc[p].user_id,
                                                 proc[p].currency, proc[p].amount)
        /\ \A p \in Procs :
              StepAt(p, "rollback", "rb_commit") =>
                  /\ UserBalance'[proc[p].balance_id].amount = proc[p].new_balance
                  /\ Flipped = { proc[p].transaction_id }
                  /\ Transaction'[proc[p].transaction_id].status = "ROLLBACKED"
        /\ (Inserted # {} \/ Flipped # {}) =>
              \E p \in Procs : \/ StepAt(p, "apply", "apply_commit")
                               \/ StepAt(p, "rollback", "rb_commit")
        /\ (Ended /\ response'.outcome # "ok") => UNCHANGED tables
      ]_vars

\* C4 witness: a post_transaction has just committed its balance and its row.
C4_Witness ==
    /\ response.op = "apply"
    /\ response.outcome = "ok"
    /\ Transaction[response.transaction_id].status = "PROCESSED"
    /\ UserBalance[BalanceOf(response.transaction_id)].amount >= response.amount

C6_RollbackBoundary ==
    [][ \A p \in Procs :
          LET t == proc[p].transaction_id IN
          /\ StepAt(p, "rollback", "rb_select_balance") =>
                LET result == UserBalance[BalanceOf(t)].amount - Transaction[t].amount IN
                /\ result < 0 =>
                      /\ proc'[p].pc = "idle"
                      /\ response'.outcome = "NegativeBalanceError"
                      /\ UNCHANGED tables
                      /\ Transaction'[t].status = "PROCESSED"
                /\ result = 0 =>
                      /\ proc'[p].pc = "rb_commit"
                      /\ proc'[p].new_balance = 0
          /\ (StepAt(p, "rollback", "rb_commit") /\ proc[p].new_balance = 0) =>
                /\ response'.outcome = "ok"
                /\ UserBalance'[BalanceOf(t)].amount = 0
      ]_vars

\* C6 witness: a rollback was refused because the balance is smaller than the
\* amount of its PROCESSED transaction.
C6_Witness ==
    /\ response.op = "rollback"
    /\ response.outcome = "NegativeBalanceError"
    /\ Transaction[response.transaction_id].status = "PROCESSED"
    /\ UserBalance[BalanceOf(response.transaction_id)].amount
          < Transaction[response.transaction_id].amount

\* C7 (as claimed): a post_transaction for an existing ACTIVE user whose
\* balance plus the requested delta is < 0 ends with NegativeBalanceError,
\* changes no row and inserts no transaction; one whose balance plus delta is
\* 0 ends with success.
C7_ApplyBoundary ==
    [][ (Ended /\ response'.op = "apply"
           /\ response'.user_id \in DOMAIN User
           /\ User[response'.user_id].status = "ACTIVE") =>
          \A b \in SelectUserBalance(response'.user_id, response'.currency) :
              /\ UserBalance[b].amount + response'.amount < 0 =>
                    /\ response'.outcome = "NegativeBalanceError"
                    /\ UNCHANGED tables
              /\ UserBalance[b].amount + response'.amount = 0 =>
                    response'.outcome = "ok"
      ]_vars

\* C8: a post_transaction (with a valid body) or a rollback that starts while
\* its user is BLOCKED ends at once with UserBlockedError and changes no row,
\* and no request is let past the user check for a BLOCKED user.
C8_BlockedUserRejected ==
    [][ /\ ( /\ proc' = proc
             /\ response' # response
             /\ response'.op \in { "apply", "rollback" }
             /\ response'.op = "apply" => ValidAmount(response'.amount)
             /\ response'.user_id \in DOMAIN User
             /\ User[response'.user_id].status = "BLOCKED" ) =>
                /\ response'.outcome = "UserBlockedError"
                /\ UNCHANGED tables
        /\ \A p \in Procs :
              ( /\ proc[p].pc = "idle"
                /\ proc'[p].pc # "idle"
                /\ proc'[p].op \in { "apply", "rollback" } ) =>
                    User[proc'[p].user_id].status # "BLOCKED"
      ]_vars

\* C8 witness: a rollback was refused for a user who is BLOCKED.
C8_Witness ==
    /\ response.op = "rollback"
    /\ response.outcome = "UserBlockedError"
    /\ response.transaction_id \in DOMAIN Transaction
    /\ User[response.user_id].status = "BLOCKED"

\* C9: no step deletes a transaction or changes its user_id, currency or
\* amount; a status changes only from PROCESSED to ROLLBACKED; a new
\* transaction is PROCESSED.
C9_StatusMachine ==
    [][ /\ \A t \in DOMAIN Transaction :
              /\ t \in DOMAIN Transaction'
              /\ Transaction'[t].user_id = Transaction[t].user_id
              /\ Transaction'[t].currency = Transaction[t].currency
              /\ Transaction'[t].amount = Transaction[t].amount
              /\ \/ Transaction'[t].status = Transaction[t].status
                 \/ /\ Transaction[t].status = "PROCESSED"
                    /\ Transaction'[t].status = "ROLLBACKED"
        /\ \A t \in Inserted : Transaction'[t].status = "PROCESSED"
      ]_vars

\* C9 witness: one transaction is ROLLBACKED and stays so while another is
\* inserted after it.
C9_Witness ==
    \E t, u \in DOMAIN Transaction :
        /\ t < u
        /\ Transaction[t].status = "ROLLBACKED"
        /\ Transaction[u].status = "PROCESSED"
        /\ pristine[u] # Touched
        /\ pristine[t] = Touched

\* C10: a rollback that reads a transaction id with no row ends with
\* TransactionNotFoundError; one that reads a transaction of another user
\* ends with TransactionOwnershipError, whatever its status; both change no
\* row; and a transaction is only ever flipped by a rollback of its own user.
C10_NotFoundAndOwnership ==
    [][ \A p \in Procs :
          LET t == proc[p].transaction_id IN
          /\ (StepAt(p, "rollback", "rb_select_transaction") /\ t \notin DOMAIN Transaction) =>
                /\ proc'[p].pc = "idle"
                /\ response'.outcome = "TransactionNotFoundError"
                /\ UNCHANGED tables
          /\ ( /\ StepAt(p, "rollback", "rb_select_transaction")
               /\ t \in DOMAIN Transaction
               /\ Transaction[t].user_id # proc[p].user_id ) =>
                /\ proc'[p].pc = "idle"
                /\ response'.outcome = "TransactionOwnershipError"
                /\ UNCHANGED tables
          /\ StepAt(p, "rollback", "rb_commit") =>
                /\ Transaction[t].user_id = proc[p].user_id
                /\ Rewritten \subseteq SelectUserBalance(proc[p].user_id,
                                                         Transaction[t].currency)
      ]_vars

\* C10 witness: a user was refused the rollback of another user's
\* transaction, which is already ROLLBACKED.
C10_Witness ==
    /\ response.op = "rollback"
    /\ response.outcome = "TransactionOwnershipError"
    /\ Transaction[response.transaction_id].user_id # response.user_id
    /\ Transaction[response.transaction_id].status = "ROLLBACKED"

\* C11 (as claimed): a post_transaction with a valid body for a user_id that
\* has no row ends with UserNotFoundError handed over as a failure (raised),
\* and changes no row.
C11_UserNotFoundRaised ==
    [][ ( /\ Ended
          /\ response'.op = "apply"
          /\ ValidAmount(response'.amount)
          /\ GetUser(response'.user_id) = None ) =>
            /\ response'.outcome = "UserNotFoundError"
            /\ response'.signal = "raise"
            /\ UNCHANGED tables
      ]_vars

\* ------------------------------------------------------------- scheduling
\* The next step of the request in flight in slot p.
InFlightStep(p) ==
    \/ post_transaction_select_balance(p)
    \/ post_transaction_commit(p)
    \/ patch_rollback_transaction_select_transaction(p)
    \/ patch_rollback_transaction_select_balance(p)
    \/ patch_rollback_transaction_commit(p)

\* Every request in flight is run on by the event loop, and a statement that
\* waits for a row lock is granted it when the lock is released again and
\* again (the wait queue of the database serves waiters in turn).  Clients
\* are not obliged to send requests.
LiveSpec == Spec /\ \A p \in Procs : SF_vars(InFlightStep(p))

\* C12: a rollback that holds the lock of a user_balance row took the lock of
\* its transaction row before, and every post_transaction and rollback that
\* has started ends (commits or aborts, which releases its locks), whatever
\* the others do.
C12_NoDeadlock ==
    /\ [](\A q \in Procs : \A b \in DOMAIN UserBalance :
            HoldsBalanceLock(q, b) => HoldsTransactionLock(q, proc[q].transaction_id))
    /\ \A p \in Procs : (proc[p].pc # "idle") ~> (proc[p].pc = "idle")

\* A rollback waits for the lock of a transaction row while the rollback that
\* holds it also holds the lock of the balance row.
C12_Witness ==
    \E p, q \in Procs :
        /\ proc[p].pc = "rb_select_transaction"
        /\ HoldsTransactionLock(q, proc[p].transaction_id)
        /\ HoldsBalanceLock(q, proc[q].balance_id)

\* C17: after every step each user has exactly one user_balance row for each
\* member of CurrencyEnum; the step that inserts a user inserts exactly its
\* rows, all with amount 0, in the same commit; a post_user refused with
\* UserAlreadyExistsError changes no table.
C17_BalancePerCurrency ==
    [][ /\ \A u \in DOMAIN User' : \A c \in CurrencyEnum :
              Cardinality({ b \in DOMAIN UserBalance' :
                              /\ UserBalance'[b].user_id = u
                              /\ UserBalance'[b].currency = c }) = 1
        /\ \A b \in DOMAIN UserBalance' : UserBalance'[b].user_id \in DOMAIN User'
        /\ Len(User') # Len(User) =>
              /\ Len(User') = Len(User) + 1
              /\ Len(UserBalance') = Len(UserBalance) + Cardinality(CurrencyEnum)
              /\ \A b \in DOMAIN UserBalance' \ DOMAIN UserBalance :
                    /\ UserBalance'[b].user_id = Len(User')
                    /\ UserBalance'[b].amount = 0
              /\ \A b \in DOMAIN UserBalance : UserBalance'[b] = UserBalance[b]
        /\ Len(User') = Len(User) => Len(UserBalance') = Len(UserBalance)
        /\ ( /\ Ended
             /\ response'.op = "post_user"
             /\ response'.outcome = "UserAlreadyExistsError" ) => UNCHANGED tables
      ]_vars

\* Two users are registered and the last post_user was refused because its
\* e-mail address is taken.
C17_Witness ==
    /\ Len(User) = 2
    /\ response.op = "post_user"
    /\ response.outcome = "UserAlreadyExistsError"

\* C18 (as claimed): conservation: the amount of every user_balance row is
\* the sum of the amounts of the PROCESSED transactions of its user and
\* currency, whatever the interleaving; and, all accepted amounts being
\* deposits, no rollback ends with NegativeBalanceError.
C18_Conservation ==
    /\ \A b \in DOMAIN UserBalance :
          UserBalance[b].amount =
              SumAmounts({ t \in TransactionsOf(b) : Transaction[t].status = "PROCESSED" })
    /\ response.op = "rollback" => response.outcome # "NegativeBalanceError"

\* C19 (as claimed): the user-status gate holds at commit time: a step that
\* commits a new PROCESSED transaction or flips one to ROLLBACKED is taken
\* only while the committed status of its user is not BLOCKED.
C19_GateAtCommit ==
    [][ \A t \in Inserted \cup Flipped :
            User[Transaction'[t].user_id].status # "BLOCKED"
      ]_vars

\* C13 (as claimed): a run of get_transaction_analysis(weeks) evaluates
\* exactly weeks buckets [dt_gt, dt_lt): each is 7 days long, the first ends
\* today and each next one ends where the one before starts, so that they do
\* not overlap and cover [today - 7 * weeks, today).
C13_WeeklyBuckets ==
    [][ /\ (job.pc = "loop" /\ job'.i = job.i + 1) =>
              /\ job.dt_lt = job.today - Weeks(job.i)
              /\ job.dt_gt = job.dt_lt - DaysPerWeek
        /\ (job.pc = "loop" /\ job'.pc = "done") => job.i = job.weeks
      ]_vars

\* C14 (as claimed): when a run of get_transaction_analysis(weeks) returns
\* and every registration and transaction of a non-empty history falls in
\* one week k of the window, [today - 7k, today - 7(k - 1)), the result has
\* exactly one entry: the one of week k, with that week's metrics.
C14_SingleWeek ==
    job.pc = "done" =>
        \A k \in 1..job.weeks :
            LET lo == job.today - Weeks(k)
                hi == lo + DaysPerWeek
            IN  ( /\ store # EmptyStore
                  /\ \A u \in DOMAIN store.users : InRange(store.users[u], lo, hi)
                  /\ \A t \in DOMAIN store.transactions :
                        InRange(store.transactions[t].created, lo, hi) )
                => job.results = << Entry(lo, hi, Metrics(lo, hi)) >>

\* C15: a pass of the loop appends an entry to results if and only if at
\* least one of the seven metrics of its bucket is strictly positive, and
\* leaves results alone otherwise; the entry carries the bucket's start_date
\* and end_date and the seven metrics as they were computed for it.
C15_EmitIffPositive ==
    [][ (job.pc = "loop" /\ job'.i = job.i + 1) =>
          LET m == Metrics(job.dt_gt, job.dt_lt) IN
          IF \E f \in DOMAIN m : m[f] > 0
          THEN job'.results =
                  Append(job.results,
                         [ start_date |-> job.dt_gt, end_date |-> job.dt_lt,
                           metrics |-> m ])
          ELSE job'.results = job.results
      ]_vars

\* A run has returned after it skipped one bucket and appended another.
C15_Witness ==
    /\ job.pc = "done"
    /\ Len(job.results) >= 1
    /\ Len(job.results) < job.weeks
    /\ job.weeks <= MaxWeeks

\* C16: the results of a run are in strictly descending chronological order
\* (every later entry has a strictly earlier start_date and a strictly
\* earlier end_date than every entry before it) and have at most weeks
\* entries, none for weeks = 0.
C16_DescendingOrder ==
    job.pc \in { "loop", "done" } =>
        /\ \A a, b \in DOMAIN job.results :
              a < b => /\ job.results[b].start_date < job.results[a].start_date
                       /\ job.results[b].end_date < job.results[a].end_date
        /\ Len(job.results) <= job.i
        /\ job.i <= job.weeks
        /\ job.weeks = 0 => job.results = << >>

\* A run with a parameter has returned at least two entries.
C16_Witness ==
    /\ job.pc = "done"
    /\ job.args # << >>
    /\ Len(job.results) >= 2

\* C20 (as claimed): a job submitted by GET /transactions/analysis?weeks=w
\* runs with weeks = w, and has scanned w buckets when it returns.
C20_RequestedWeeks ==
    (job.requested # NoWeeks /\ job.pc \in { "loop", "done" }) =>
        /\ job.weeks = job.requested
        /\ job.pc = "done" => job.i = job.requested

=============================================================================
